---- MODULE Spec2Model ----
(***************************************************************************)
(* Model of the survey processing pipeline of RAG_Survey_Analysis_Europa   *)
(* (notebooks/survey_data_processor.ipynb): the per-survey loop, column    *)
(* validation, LTR/driver extraction, pd.concat aggregation and the        *)
(* output cell that writes the archive and current files.                  *)
(*                                                                         *)
(* A DataFrame is a record [none, cols, rows]: cols is the set of column   *)
(* names, rows the sequence of rows, each row a function from cols to      *)
(* cell values.  A cell value is a record [t, s, n]: text (t = "str", s    *)
(* the sequence of characters), number (t = "num"), timestamp (t = "time") *)
(* or the missing-value marker NaN (t = "nan").                            *)
(***************************************************************************)
EXTENDS Integers, Sequences, FiniteSets, TLC

\* ------------------------------------------------------------------ bounds
\* Longest configured survey list explored.
MaxSurveys == 2
\* Most rows a query returns.
MaxRows == 2
\* Longest list of frames handed to concat directly.
MaxFrames == 2
\* Most spaces put before or after a response label.
MaxPad == 2
\* Most runs of the pipeline over the same output directories.
MaxRuns == 2

\* ------------------------------------------------------------- cell values
Str(chars) == [t |-> "str", s |-> chars, n |-> 0]
Num(k) == [t |-> "num", s |-> <<>>, n |-> k]
Time(k) == [t |-> "time", s |-> <<>>, n |-> k]
\* pandas' missing value: what pd.concat puts in a column a row did not have
NaN == [t |-> "nan", s |-> <<>>, n |-> 0]
\* a survey name stored in a cell (df['Survey_Name'] = survey_name)
NameCell(name) == [t |-> "name", s |-> <<name>>, n |-> 0]

\* ---------------------------------------------------------------- datasets
DF(cols, rows) == [none |-> FALSE, cols |-> cols, rows |-> rows]
\* Python's None where a DataFrame is expected
None == [none |-> TRUE, cols |-> {}, rows |-> <<>>]

\* len(df)
NumRows(df) == Len(df.rows)

\* seeded fault: the column is added only when the frame does not have it
SetColumn_ifabsent(df, col, value) ==
    DF(df.cols \cup {col},
       [j \in 1..Len(df.rows) |->
           [c \in df.cols \cup {col} |->
               IF c \in df.cols THEN df.rows[j][c] ELSE value]])

\* df[col] = value: the column is added, or overwritten in every row
SetColumn(df, col, value) ==
    DF(df.cols \cup {col},
       [j \in 1..Len(df.rows) |->
           [c \in df.cols \cup {col} |-> IF c = col THEN value ELSE df.rows[j][c]]])

\* df[columns]: the projection on a set of columns, same rows
Project(df, columns) ==
    DF(columns, [j \in 1..Len(df.rows) |-> [c \in columns |-> df.rows[j][c]]])

\* ---------------------------------------------------------------- taxonomy
\* The column type system: column name -> STANDARD | LTR | DRIVERS | METADATA
ALL_COLUMNS ==
    [c \in {"ResponseID", "Timestamp", "NPS_Score", "NPS_Comment",
            "Satisfaction_Rating", "Custom_Metric_1", "Custom_Metric_2",
            "Custom_Metric_3", "Custom_Metric_4", "Custom_Metric_5",
            "Demographics_Age", "Free_Text_Feedback"} |->
        CASE c \in {"ResponseID", "Timestamp"} -> "STANDARD"
          [] c \in {"NPS_Score", "NPS_Comment"} -> "LTR"
          [] c \in {"Satisfaction_Rating", "Custom_Metric_1", "Custom_Metric_2",
                    "Custom_Metric_3", "Custom_Metric_4", "Custom_Metric_5"} -> "DRIVERS"
          [] OTHER -> "METADATA"]

\* all_columns_dict.get(col): the category, or "None" for an unknown column
CategoryOf(all_columns_dict, col) ==
    IF col \in DOMAIN all_columns_dict THEN all_columns_dict[col] ELSE "None"

\* the columns the pipeline adds itself
AutoAddedColumns == {"Survey_Name", "Processed_Date"}

\* ------------------------------------------------------- column validation
\* seeded fault: the bookkeeping columns are not exempted
validate_columns_noexempt(columns, all_columns_dict) ==
    LET invalid_columns == columns \ DOMAIN all_columns_dict
    IN  [is_valid |-> invalid_columns = {}, invalid_columns |-> invalid_columns]

\* seeded fault: one recognised column is enough to pass
validate_columns_anyvalid(columns, all_columns_dict) ==
    LET df_columns == columns \ AutoAddedColumns
        invalid_columns == df_columns \ DOMAIN all_columns_dict
    IN  [is_valid |-> df_columns = {} \/ invalid_columns # df_columns,
         invalid_columns |-> invalid_columns]

\* validate_columns(df, survey_name, all_columns_dict) -> (is_valid, invalid_columns)
validate_columns(columns, all_columns_dict) ==
    LET df_columns == columns \ AutoAddedColumns
        allowed_columns == DOMAIN all_columns_dict
        invalid_columns == df_columns \ allowed_columns
    IN  IF invalid_columns # {}
        THEN [is_valid |-> FALSE, invalid_columns |-> invalid_columns]
        ELSE [is_valid |-> TRUE, invalid_columns |-> {}]

\* ---------------------------------------------------- LTR/driver extraction
ColumnsOfType(df, all_columns_dict, col_type) ==
    {col \in DOMAIN all_columns_dict :
        all_columns_dict[col] = col_type /\ col \in df.cols}

\* seeded fault: only LTR columns make a dataset eligible
extract_ltr_and_drivers_ltronly(df, all_columns_dict) ==
    LET ltr_columns == ColumnsOfType(df, all_columns_dict, "LTR")
        driver_columns == ColumnsOfType(df, all_columns_dict, "DRIVERS")
        standard_columns == ColumnsOfType(df, all_columns_dict, "STANDARD")
        available_auto_added == {col \in AutoAddedColumns : col \in df.cols}
        relevant_columns ==
            standard_columns \cup ltr_columns \cup driver_columns
                \cup available_auto_added
    IN  IF ltr_columns # {}
        THEN Project(df, relevant_columns)
        ELSE None

\* seeded fault: the projection is returned even without LTR/DRIVERS columns
extract_ltr_and_drivers_always(df, all_columns_dict) ==
    LET ltr_columns == ColumnsOfType(df, all_columns_dict, "LTR")
        driver_columns == ColumnsOfType(df, all_columns_dict, "DRIVERS")
        standard_columns == ColumnsOfType(df, all_columns_dict, "STANDARD")
        available_auto_added == {col \in AutoAddedColumns : col \in df.cols}
    IN  Project(df, standard_columns \cup ltr_columns \cup driver_columns
                        \cup available_auto_added)

\* extract_ltr_and_drivers(df, survey_name, all_columns_dict) -> DataFrame or None
extract_ltr_and_drivers(df, all_columns_dict) ==
    LET ltr_columns == ColumnsOfType(df, all_columns_dict, "LTR")
        driver_columns == ColumnsOfType(df, all_columns_dict, "DRIVERS")
        standard_columns == ColumnsOfType(df, all_columns_dict, "STANDARD")
        available_auto_added == {col \in AutoAddedColumns : col \in df.cols}
        relevant_columns ==
            standard_columns \cup ltr_columns \cup driver_columns
                \cup available_auto_added
    IN  IF ltr_columns # {} \/ driver_columns # {}
        THEN Project(df, relevant_columns)
        ELSE None

\* ------------------------------------------------------------------ concat
\* a row widened to the combined columns: NaN where the row had no such column
Widen(row, columns) ==
    [c \in columns |-> IF c \in DOMAIN row THEN row[c] ELSE NaN]

RECURSIVE UnionCols(_)
UnionCols(dfs) ==
    IF dfs = <<>> THEN {} ELSE dfs[1].cols \cup UnionCols(Tail(dfs))

RECURSIVE StackRows(_, _)
StackRows(dfs, columns) ==
    IF dfs = <<>> THEN <<>>
    ELSE [j \in 1..Len(dfs[1].rows) |-> Widen(dfs[1].rows[j], columns)]
            \o StackRows(Tail(dfs), columns)

\* seeded fault: only the last frame is written
concat_last(dfs) == dfs[Len(dfs)]

RECURSIVE InterCols(_)
InterCols(dfs) ==
    IF Len(dfs) = 1 THEN dfs[1].cols ELSE dfs[1].cols \cap InterCols(Tail(dfs))

\* seeded fault: join="inner", only the columns all frames share
concat_inner(dfs) == DF(InterCols(dfs), StackRows(dfs, InterCols(dfs)))

RECURSIVE DropDuplicateIds(_, _)
DropDuplicateIds(rows, seen) ==
    IF rows = <<>> THEN <<>>
    ELSE LET id == IF "ResponseID" \in DOMAIN Head(rows)
                   THEN Head(rows)["ResponseID"] ELSE NaN
         IN  IF id # NaN /\ id \in seen
             THEN DropDuplicateIds(Tail(rows), seen)
             ELSE <<Head(rows)>> \o DropDuplicateIds(Tail(rows), seen \cup {id})

\* seeded fault: rows repeating an earlier ResponseID are dropped
concat_dedup(dfs) ==
    DF(UnionCols(dfs), DropDuplicateIds(StackRows(dfs, UnionCols(dfs)), {}))

\* pd.concat(dfs, ignore_index=True, sort=False): outer join on the columns,
\* the frames' rows stacked in list order
concat(dfs) == DF(UnionCols(dfs), StackRows(dfs, UnionCols(dfs)))

\* ------------------------------------------------- dictionaries and mapper
\* config/mapping_dictionaries.json: dictionary name -> (label -> number)
mapping_dictionaries ==
    [d \in {"yes_no_binary", "satisfaction_5_scale", "recommendation_10_scale",
            "reverse_3_scale"} |->
        CASE d = "yes_no_binary" ->
                (<<"y", "e", "s">> :> 1) @@ (<<"n", "o">> :> 0)
          [] d = "satisfaction_5_scale" ->
                (<<"v", "e", "r", "y", " ", "d", "i", "s", "s", "a", "t", "i", "s",
                   "f", "i", "e", "d">> :> 1)
                @@ (<<"d", "i", "s", "s", "a", "t", "i", "s", "f", "i", "e", "d">> :> 2)
                @@ (<<"n", "e", "u", "t", "r", "a", "l">> :> 3)
                @@ (<<"s", "a", "t", "i", "s", "f", "i", "e", "d">> :> 4)
                @@ (<<"v", "e", "r", "y", " ", "s", "a", "t", "i", "s", "f", "i", "e",
                      "d">> :> 5)
          \* a custom dictionary added to the file: a reverse-coded 3-point scale
          [] d = "reverse_3_scale" ->
                (<<"1">> :> 3) @@ (<<"2">> :> 2) @@ (<<"3">> :> 1)
          [] OTHER ->
                (<<"0">> :> 0) @@ (<<"1">> :> 1) @@ (<<"2">> :> 2) @@ (<<"3">> :> 3)
                @@ (<<"4">> :> 4) @@ (<<"5">> :> 5) @@ (<<"6">> :> 6) @@ (<<"7">> :> 7)
                @@ (<<"8">> :> 8) @@ (<<"9">> :> 9) @@ (<<"1", "0">> :> 10)]

\* the default_mappings block of config/survey_column_mappings.json
default_mappings ==
    ("NPS_Score" :> "recommendation_10_scale")
    @@ ("Satisfaction_Rating" :> "satisfaction_5_scale")
    @@ ("Yes_No_Question" :> "yes_no_binary")

\* a mapping with no entry
EmptyMapping == [c \in {} |-> ""]

\* case folding of one character
Upper == <<"A", "B", "C", "D", "E", "F", "G", "H", "I", "J", "K", "L", "M",
           "N", "O", "P", "Q", "R", "S", "T", "U", "V", "W", "X", "Y", "Z">>
Lower == <<"a", "b", "c", "d", "e", "f", "g", "h", "i", "j", "k", "l", "m",
           "n", "o", "p", "q", "r", "s", "t", "u", "v", "w", "x", "y", "z">>
CaseFold(ch) ==
    IF \E k \in 1..Len(Upper) : Upper[k] = ch
    THEN Lower[CHOOSE k \in 1..Len(Upper) : Upper[k] = ch]
    ELSE ch

RECURSIVE StripLeft(_)
StripLeft(chars) ==
    IF chars # <<>> /\ Head(chars) = " " THEN StripLeft(Tail(chars)) ELSE chars

RECURSIVE StripRight(_)
StripRight(chars) ==
    IF chars # <<>> /\ chars[Len(chars)] = " "
    THEN StripRight(SubSeq(chars, 1, Len(chars) - 1))
    ELSE chars

\* seeded fault: the label is trimmed but not case-folded
Normalize_nofold(chars) == StripRight(StripLeft(chars))

\* normalisation of a response label: trimmed, then case-folded
Normalize(chars) ==
    LET trimmed == StripRight(StripLeft(chars))
    IN  [k \in 1..Len(trimmed) |-> CaseFold(trimmed[k])]

\* seeded fault: Series.map(dictionary), a miss gives NaN
MapValue_missnan(value, dictionary) ==
    IF value.t # "str" THEN value
    ELSE IF Normalize(value.s) \in DOMAIN dictionary
         THEN Num(dictionary[Normalize(value.s)])
         ELSE NaN

\* the decimal digits of a number, as str() writes them
Digits(k) ==
    IF k < 10
    THEN <<<<"0">>, <<"1">>, <<"2">>, <<"3">>, <<"4">>, <<"5">>, <<"6">>, <<"7">>,
           <<"8">>, <<"9">>>>[k + 1]
    ELSE <<"1", "0">>

\* seeded fault: every value but NaN is turned into text before the lookup,
\* str(value).strip().lower(), so a number can hit a key made of digits
MapValue_stringify(value, dictionary) ==
    LET key == IF value.t = "num" THEN Digits(value.n) ELSE Normalize(value.s)
    IN  IF value.t \notin {"str", "num"} THEN value
        ELSE IF key \in DOMAIN dictionary THEN Num(dictionary[key]) ELSE value

\* one value through one dictionary: NaN and non-text stay, a hit gives the
\* number, a miss keeps the original value
MapValue(value, dictionary) ==
    IF value.t # "str" THEN value
    ELSE IF Normalize(value.s) \in DOMAIN dictionary
         THEN Num(dictionary[Normalize(value.s)])
         ELSE value

\* mapper.get_survey_mappings(survey_name): the survey's explicit mappings
get_survey_mappings(config, survey_name) ==
    IF survey_name \in DOMAIN config THEN config[survey_name] ELSE EmptyMapping

\* seeded fault: dict.update(defaults) after the explicit mappings, a default
\* rule replaces the explicit one
get_effective_mappings_defaultwins(config, survey_name, present_columns, include_defaults) ==
    LET explicit == get_survey_mappings(config, survey_name)
        defaults == {c \in DOMAIN default_mappings :
                        include_defaults /\ c \in present_columns}
    IN  [c \in DOMAIN explicit \cup defaults |->
            IF c \in defaults THEN default_mappings[c] ELSE explicit[c]]

\* explicit mappings, plus each default whose column is present and not
\* explicitly configured
get_effective_mappings(config, survey_name, present_columns, include_defaults) ==
    LET explicit == get_survey_mappings(config, survey_name)
        defaults == {c \in DOMAIN default_mappings :
                        /\ include_defaults
                        /\ c \in present_columns
                        /\ c \notin DOMAIN explicit}
    IN  [c \in DOMAIN explicit \cup defaults |->
            IF c \in DOMAIN explicit THEN explicit[c] ELSE default_mappings[c]]

\* the mapped columns of a dataset whose dictionary name is not a name of
\* mapping_dictionaries: get(name) fails for them with ConfigError
UnknownDictionaries(config, survey_name, present_columns) ==
    LET effective == get_effective_mappings(config, survey_name, present_columns, TRUE)
    IN  {c \in DOMAIN effective \cap present_columns :
            effective[c] \notin DOMAIN mapping_dictionaries}

\* mapper.transform_survey(df, survey_name): every mapped column that is
\* present has its values sent through its dictionary
transform_survey(config, df, survey_name, include_defaults) ==
    LET effective == get_effective_mappings(config, survey_name, df.cols, include_defaults)
    IN  DF(df.cols,
           [j \in 1..Len(df.rows) |->
               [c \in df.cols |->
                   IF c \in DOMAIN effective
                   THEN MapValue(df.rows[j][c], mapping_dictionaries[effective[c]])
                   ELSE df.rows[j][c]]])

\* seeded fault: the default rules are not counted as a cover
validate_survey_config_nodefaults(config, survey_name, df) ==
    LET explicit == get_survey_mappings(config, survey_name)
    IN  [missing |-> DOMAIN explicit \ df.cols,
         extra |-> df.cols \ DOMAIN explicit]

\* mapper.validate_survey_config(survey_name, df) -> {missing, extra}
validate_survey_config(config, survey_name, df) ==
    LET explicit == get_survey_mappings(config, survey_name)
    IN  [missing |-> DOMAIN explicit \ df.cols,
         extra |-> df.cols \ (DOMAIN explicit \cup DOMAIN default_mappings)]

\* ----------------------------------------------------------- configuration
\* SURVEYS of the configuration cell, the list the bounds take prefixes of
AllSurveys == <<"survey_1", "survey_2", "survey_3", "survey_4", "survey_5">>

SurveyLists == {SubSeq(AllSurveys, 1, n) : n \in 1..MaxSurveys}

\* config/survey_column_mappings.json, per survey the "columns" block:
\* nothing configured, or two configured surveys
ConfigMenu ==
    { [sv \in {} |-> EmptyMapping],
      ("survey_1" :> (("Satisfaction_Rating" :> "satisfaction_5_scale")
                      @@ ("Custom_Metric_1" :> "yes_no_binary")))
      @@ ("survey_2" :> ("NPS_Score" :> "recommendation_10_scale")) }

\* the file with a dictionary name that mapping_dictionaries.json does not
\* have: survey_1's NPS_Score is mapped to "nps_11_scale"
MisspeltConfig == "survey_1" :> ("NPS_Score" :> "nps_11_scale")

\* the configurations a run of the notebook may find
PipelineConfigs == ConfigMenu \cup {MisspeltConfig}

\* ----------------------------------------------------------- record source
\* the column sets the queries of the model select
SourceSchemas ==
    { {"ResponseID", "Timestamp", "NPS_Score"},
      {"ResponseID", "Satisfaction_Rating", "Custom_Metric_1"},
      {"ResponseID", "NPS_Score", "Satisfaction_Rating", "Demographics_Age"},
      {"Demographics_Age", "Free_Text_Feedback"},
      {"ResponseID", "Timestamp", "Demographics_Age"},
      {"ResponseID", "Timestamp", "Weird_Column"},
      {"ResponseID", "NPS_Score", "Survey_Name"} }

SurveyIndex(survey_name) == CHOOSE k \in 1..Len(AllSurveys) : AllSurveys[k] = survey_name

\* the database content: the value of column col in row j of a survey.
\* Response identifiers restart at 1 in every survey.
SourceCell(survey_name, j, col) ==
    LET v == (SurveyIndex(survey_name) + j) % 3
    IN  CASE col = "ResponseID" -> Num(j)
          [] col = "Timestamp" -> Time(0)
          [] col = "NPS_Score" ->
                IF v = 0 THEN Str(<<"1", "0">>)
                ELSE IF v = 1 THEN Str(<<" ", "9">>) ELSE Num(7)
          [] col = "Satisfaction_Rating" ->
                IF v = 0 THEN Str(<<"N", "e", "u", "t", "r", "a", "l">>)
                ELSE IF v = 1 THEN Str(<<" ", "s", "a", "t", "i", "s", "f", "i", "e", "d", " ">>)
                ELSE Str(<<"S", "o", "m", "e", "w", "h", "a", "t", " ", "O", "K">>)
          [] col \in {"Custom_Metric_1", "Yes_No_Question"} ->
                IF v = 0 THEN Str(<<"Y", "e", "s">>)
                ELSE IF v = 1 THEN Str(<<"N", "o">>) ELSE Str(<<"M", "a", "y", "b", "e">>)
          [] col = "Custom_Metric_2" ->
                IF v = 0 THEN Str(<<"3">>)
                ELSE IF v = 1 THEN Str(<<" ", "1">>) ELSE Num(2)
          [] col = "Survey_Name" -> NameCell("legacy_name")
          [] OTHER -> Str(<<"x">>)

\* pd.read_sql_query(query, conn) when it succeeds
QueryFrame(survey_name, columns, nrows) ==
    DF(columns, [j \in 1..nrows |-> [c \in columns |-> SourceCell(survey_name, j, c)]])

QueryFrames(survey_name) ==
    {QueryFrame(survey_name, columns, nrows) : columns \in SourceSchemas, nrows \in 0..MaxRows}

\* ------------------------------------------------------------------- state
VARIABLES
    SURVEYS,                \* the configured survey list
    survey_column_mappings, \* the mapper's per-survey column configuration
    extract_defined,        \* the kernel has run the cell defining extract_ltr_and_drivers
    TIMESTAMP,              \* the run's archive suffix, set by the configuration cell
    pc,                     \* "loop", "output", "done" ("aborted": an exception left the loop)
    next_survey,            \* position in SURVEYS of the next loop iteration
    all_survey_data,        \* list of stored full datasets
    nps_driver_data,        \* list of stored LTR/driver projections
    processing_summary,     \* list of summary rows
    attempt_log,            \* per iteration: the survey, what the outside world
                            \* gave it, the stages it reached and whether an
                            \* exception reached the except clause
    combined_ltr_drivers,   \* output 1 of the output cell, None while not built
    combined_all_data,      \* output 2 of the output cell, None while not built
    archive,                \* rag_outputs/archive: file name -> content
    current,                \* rag_outputs/current: file name -> content
    run,                    \* the number of the run over these directories
    to_write,               \* the to_csv calls the output cell has still to make
    file_open,              \* the first of them has opened its file for writing
    archive_run,            \* archive file name -> the run that last wrote it
    current_run,            \* current file name -> the run that last wrote it
    fn_call,                \* a direct call of one of the functions: name and arguments
    fn_result               \* what that call returned

vars == <<SURVEYS, survey_column_mappings, extract_defined, TIMESTAMP, pc, next_survey,
          all_survey_data, nps_driver_data, processing_summary, attempt_log,
          combined_ltr_drivers, combined_all_data, archive, current, fn_call, fn_result,
          run, to_write, file_open, archive_run, current_run>>

\* ------------------------------------------------------------ data loading
\* connection=None, the default of execute_query_and_load_data
NoConnection == "None"

\* seeded fault: conn.close() is the last statement of the try body instead
\* of the finally clause
execute_query_and_load_data_noclose(survey_name, connection, file_exists, query) ==
    LET own == connection = NoConnection
    IN  IF ~file_exists
        THEN [raised |-> TRUE, df |-> None, stages |-> {"load_sql"},
              conn_opened |-> FALSE, conn_closed |-> FALSE, supplied_closed |-> FALSE]
        ELSE IF query.none
        THEN [raised |-> FALSE, df |-> None, stages |-> {"load_sql", "query"},
              conn_opened |-> own, conn_closed |-> FALSE, supplied_closed |-> FALSE]
        ELSE IF ~validate_columns(query.cols, ALL_COLUMNS).is_valid
        THEN [raised |-> FALSE, df |-> None, stages |-> {"load_sql", "query", "validate"},
              conn_opened |-> own, conn_closed |-> FALSE, supplied_closed |-> FALSE]
        ELSE [raised |-> FALSE, df |-> SetColumn(query, "Survey_Name", NameCell(survey_name)),
              stages |-> {"load_sql", "query", "validate"},
              conn_opened |-> own, conn_closed |-> own, supplied_closed |-> FALSE]

\* execute_query_and_load_data(survey_name, connection).  file_exists:
\* get_data.sql is there; query: the frame pd.read_sql_query returns, None
\* when it raises.  load_sql_query runs before the connection is made and
\* before the try block, so its FileNotFoundError leaves the function
\* (raised); inside the try every exception gives None.  The function makes
\* a connection of its own when none is supplied, and the finally clause
\* closes conn exactly when connection is None.
execute_query_and_load_data(survey_name, connection, file_exists, query) ==
    LET own == connection = NoConnection
    IN  IF ~file_exists
        THEN [raised |-> TRUE, df |-> None, stages |-> {"load_sql"},
              conn_opened |-> FALSE, conn_closed |-> FALSE, supplied_closed |-> FALSE]
        ELSE IF query.none
        THEN [raised |-> FALSE, df |-> None, stages |-> {"load_sql", "query"},
              conn_opened |-> own, conn_closed |-> own, supplied_closed |-> FALSE]
        ELSE IF ~validate_columns(query.cols, ALL_COLUMNS).is_valid
        THEN [raised |-> FALSE, df |-> None, stages |-> {"load_sql", "query", "validate"},
              conn_opened |-> own, conn_closed |-> own, supplied_closed |-> FALSE]
        ELSE [raised |-> FALSE, df |-> SetColumn(query, "Survey_Name", NameCell(survey_name)),
              stages |-> {"load_sql", "query", "validate"},
              conn_opened |-> own, conn_closed |-> own, supplied_closed |-> FALSE]

\* ----------------------------------------------------- per-survey iteration
SummaryRow(survey_name, records, columns, transformed, has_ltr, has_driver, status, time) ==
    [Survey_Name |-> survey_name, Records_Processed |-> records,
     Columns_Count |-> columns, Columns_Transformed |-> transformed,
     Has_LTR_Data |-> has_ltr, Has_Driver_Data |-> has_driver,
     Processing_Status |-> status, Processed_Time |-> time]

\* the row of a survey that brought nothing
EmptyRow(survey_name, status, time) ==
    SummaryRow(survey_name, 0, 0, 0, FALSE, FALSE, status, time)

\* seeded fault: the except clause only prints
ExceptClause_silent(survey_name, message, k) == <<>>

\* the except clause of the loop body: the summary rows it appends
ExceptClause(survey_name, message, k) ==
    <<EmptyRow(survey_name, message, Time(k))>>

\* the else branch (df is None or has no rows): the summary rows it appends
ElseBranch(survey_name, df, k) ==
    <<EmptyRow(survey_name, IF ~df.none THEN "No Data" ELSE "Failed to load", Time(k))>>

\* seeded fault: Has_Driver_Data looks for "LTR" as Has_LTR_Data does
SuccessRow_ltrtwice(survey_name, df, survey_mappings, k) ==
    SummaryRow(survey_name, NumRows(df), Cardinality(df.cols),
               Cardinality(DOMAIN survey_mappings),
               \E col \in df.cols : CategoryOf(ALL_COLUMNS, col) = "LTR",
               \E col \in df.cols : CategoryOf(ALL_COLUMNS, col) = "LTR",
               "Success", Time(k))

\* the summary row at the end of the if branch
SuccessRow(survey_name, df, survey_mappings, k) ==
    SummaryRow(survey_name, NumRows(df), Cardinality(df.cols),
               Cardinality(DOMAIN survey_mappings),
               \E col \in df.cols : CategoryOf(ALL_COLUMNS, col) = "LTR",
               \E col \in df.cols : CategoryOf(ALL_COLUMNS, col) = "DRIVERS",
               "Success", Time(k))

\* mapper.transform_survey is called: a frame with rows came back and the
\* survey has explicit mappings
TransformCalled(survey_name, config, file_exists, query) ==
    LET loaded == execute_query_and_load_data(survey_name, NoConnection, file_exists, query)
    IN  /\ ~loaded.raised
        /\ ~loaded.df.none
        /\ NumRows(loaded.df) > 0
        /\ DOMAIN get_survey_mappings(config, survey_name) # {}

\* seeded fault: the LTR/driver subset is extracted and stored before the
\* transformation, the full dataset after it
ProcessOne_subsetfirst(survey_name, k, config, defined, file_exists, query, transform_raises) ==
    LET loaded == execute_query_and_load_data(survey_name, NoConnection, file_exists, query)
        df0 == loaded.df
        df1 == SetColumn(SetColumn(df0, "Survey_Name", NameCell(survey_name)),
                         "Processed_Date", Time(k))
        survey_mappings == get_survey_mappings(config, survey_name)
        df == IF DOMAIN survey_mappings # {}
              THEN transform_survey(config, df1, survey_name, TRUE)
              ELSE df1
        validation == validate_survey_config(config, survey_name, df)
        ltr_driver_subset == extract_ltr_and_drivers(df, ALL_COLUMNS)
        base == [survey |-> survey_name, file_exists |-> file_exists, query |-> query,
                 transform_raises |-> transform_raises,
                 conn_opened |-> loaded.conn_opened, conn_closed |-> loaded.conn_closed]
    IN  IF loaded.raised
        THEN [all_add |-> <<>>, nps_add |-> <<>>, raised |-> TRUE,
              rows |-> ExceptClause(survey_name, "Error: SQL file not found", k),
              log |-> base @@ [stages |-> loaded.stages]]
        ELSE IF df0.none \/ NumRows(df0) = 0
        THEN [all_add |-> <<>>, nps_add |-> <<>>, raised |-> FALSE,
              rows |-> ElseBranch(survey_name, df0, k),
              log |-> base @@ [stages |-> loaded.stages]]
        ELSE IF DOMAIN survey_mappings # {} /\ transform_raises
        THEN [all_add |-> <<>>,
              nps_add |-> IF extract_ltr_and_drivers(df1, ALL_COLUMNS).none THEN <<>>
                          ELSE <<extract_ltr_and_drivers(df1, ALL_COLUMNS)>>,
              raised |-> TRUE,
              rows |-> ExceptClause(survey_name, "Error: transformation failed", k),
              log |-> base @@ [stages |-> loaded.stages \cup {"transform"}]]
        ELSE IF /\ DOMAIN survey_mappings # {}
                /\ UnknownDictionaries(config, survey_name, df1.cols) # {}
        THEN [all_add |-> <<>>, nps_add |-> <<>>, raised |-> TRUE,
              rows |-> ExceptClause(survey_name, "Error: unknown dictionary", k),
              log |-> base @@ [stages |-> loaded.stages \cup {"transform"}]]
        ELSE IF ~defined
        THEN [all_add |-> <<df>>, nps_add |-> <<>>, raised |-> TRUE,
              rows |-> ExceptClause(survey_name,
                          "Error: name 'extract_ltr_and_drivers' is not defined", k),
              log |-> base @@ [stages |-> loaded.stages \cup {"transform", "aggregate"}]]
        ELSE [all_add |-> <<df>>,
              nps_add |-> IF ltr_driver_subset.none THEN <<>> ELSE <<ltr_driver_subset>>,
              raised |-> FALSE,
              rows |-> <<SuccessRow(survey_name, df, survey_mappings, k)>>,
              log |-> base @@ [stages |-> loaded.stages \cup {"transform", "aggregate"}]]

\* One pass of the loop body for survey_name at list position k: what it
\* appends to all_survey_data, nps_driver_data and processing_summary, the
\* stages reached and whether an exception reached the except clause.
\* transform_raises: the mapper raises inside transform_survey.
ProcessOne(survey_name, k, config, defined, file_exists, query, transform_raises) ==
    LET loaded == execute_query_and_load_data(survey_name, NoConnection, file_exists, query)
        df0 == loaded.df
        df1 == SetColumn(SetColumn(df0, "Survey_Name", NameCell(survey_name)),
                         "Processed_Date", Time(k))
        survey_mappings == get_survey_mappings(config, survey_name)
        df == IF DOMAIN survey_mappings # {}
              THEN transform_survey(config, df1, survey_name, TRUE)
              ELSE df1
        validation == validate_survey_config(config, survey_name, df)
        ltr_driver_subset == extract_ltr_and_drivers(df, ALL_COLUMNS)
        base == [survey |-> survey_name, file_exists |-> file_exists, query |-> query,
                 transform_raises |-> transform_raises,
                 conn_opened |-> loaded.conn_opened, conn_closed |-> loaded.conn_closed]
    IN  IF loaded.raised
        THEN [all_add |-> <<>>, nps_add |-> <<>>, raised |-> TRUE,
              rows |-> ExceptClause(survey_name, "Error: SQL file not found", k),
              log |-> base @@ [stages |-> loaded.stages]]
        ELSE IF df0.none \/ NumRows(df0) = 0
        THEN [all_add |-> <<>>, nps_add |-> <<>>, raised |-> FALSE,
              rows |-> ElseBranch(survey_name, df0, k),
              log |-> base @@ [stages |-> loaded.stages]]
        ELSE IF DOMAIN survey_mappings # {} /\ transform_raises
        THEN [all_add |-> <<>>, nps_add |-> <<>>, raised |-> TRUE,
              rows |-> ExceptClause(survey_name, "Error: transformation failed", k),
              log |-> base @@ [stages |-> loaded.stages \cup {"transform"}]]
        ELSE IF /\ DOMAIN survey_mappings # {}
                /\ UnknownDictionaries(config, survey_name, df1.cols) # {}
        THEN [all_add |-> <<>>, nps_add |-> <<>>, raised |-> TRUE,
              rows |-> ExceptClause(survey_name, "Error: unknown dictionary", k),
              log |-> base @@ [stages |-> loaded.stages \cup {"transform"}]]
        ELSE IF ~defined
        THEN [all_add |-> <<df>>, nps_add |-> <<>>, raised |-> TRUE,
              rows |-> ExceptClause(survey_name,
                          "Error: name 'extract_ltr_and_drivers' is not defined", k),
              log |-> base @@ [stages |-> loaded.stages \cup {"transform", "aggregate"}]]
        ELSE [all_add |-> <<df>>,
              nps_add |-> IF ltr_driver_subset.none THEN <<>> ELSE <<ltr_driver_subset>>,
              raised |-> FALSE,
              rows |-> <<SuccessRow(survey_name, df, survey_mappings, k)>>,
              log |-> base @@ [stages |-> loaded.stages \cup {"transform", "aggregate"}]]

\* seeded fault: list.insert(0, item), the new entry goes to the front
ListAppend_front(list, items) == items \o list

\* list.append(item) for each of the items a pass of the loop body stores
ListAppend(list, items) == list \o items

\* seeded fault: the try/except is around the loop, not inside it
PcAfterSurvey_abort(raised) == IF raised THEN "aborted" ELSE "loop"

\* where control goes after one pass of the loop body: the try/except is
\* inside the for body, so the loop goes on whether or not something raised
PcAfterSurvey(raised) == "loop"

\* ------------------------------------------------------------------ files
WriteFile(files, name, content) ==
    [f \in DOMAIN files \cup {name} |-> IF f = name THEN content ELSE files[f]]

NoFiles == [f \in {} |-> None]

\* no file written by any run yet
NoRuns == [f \in {} |-> 0]

\* a file whose to_csv call has returned, and one that to_csv has opened
\* (mode "w" empties it) and not closed yet
CompleteFile(data) == [complete |-> TRUE, data |-> data]
PartialFile == [complete |-> FALSE, data |-> <<>>]

\* seeded fault: the summary is written only when some survey was stored
OutputWrites_withdata(ltr, all, summary, timestamp) ==
    (IF ltr.none THEN <<>>
     ELSE <<[dir |-> "archive", name |-> <<"Combined_LTR_Drivers", timestamp>>, data |-> ltr],
            [dir |-> "current", name |-> "combined_ltr_drivers.csv", data |-> ltr]>>)
    \o (IF all.none THEN <<>>
        ELSE <<[dir |-> "archive", name |-> <<"Combined_All_Surveys", timestamp>>, data |-> all],
               [dir |-> "current", name |-> "combined_all_surveys.csv", data |-> all],
               [dir |-> "archive", name |-> <<"Processing_Summary", timestamp>>, data |-> summary],
               [dir |-> "current", name |-> "processing_summary.csv", data |-> summary]>>)

\* the to_csv calls of the output cell, in the order of the cell: each
\* combined output only when it was built, archive copy first, then the
\* current copy; the summary always
OutputWrites(ltr, all, summary, timestamp) ==
    (IF ltr.none THEN <<>>
     ELSE <<[dir |-> "archive", name |-> <<"Combined_LTR_Drivers", timestamp>>, data |-> ltr],
            [dir |-> "current", name |-> "combined_ltr_drivers.csv", data |-> ltr]>>)
    \o (IF all.none THEN <<>>
        ELSE <<[dir |-> "archive", name |-> <<"Combined_All_Surveys", timestamp>>, data |-> all],
               [dir |-> "current", name |-> "combined_all_surveys.csv", data |-> all]>>)
    \o <<[dir |-> "archive", name |-> <<"Processing_Summary", timestamp>>, data |-> summary],
         [dir |-> "current", name |-> "processing_summary.csv", data |-> summary]>>

\* a directory after the to_csv calls of a list that go to it
RECURSIVE AfterWrites(_, _, _)
AfterWrites(files, writes, dir) ==
    IF writes = <<>> THEN files
    ELSE AfterWrites(IF Head(writes).dir = dir
                     THEN WriteFile(files, Head(writes).name, CompleteFile(Head(writes).data))
                     ELSE files,
                     Tail(writes), dir)

\* the run recorded for every file of a directory that a list of calls writes
RECURSIVE AfterWritesRun(_, _, _, _)
AfterWritesRun(runs, writes, dir, r) ==
    IF writes = <<>> THEN runs
    ELSE AfterWritesRun(IF Head(writes).dir = dir
                        THEN WriteFile(runs, Head(writes).name, r)
                        ELSE runs,
                        Tail(writes), dir, r)

\* no direct function call
Idle == [f |-> "idle"]

\* ---------------------------------------------------------------- actions
Init ==
    /\ SURVEYS \in SurveyLists
    /\ survey_column_mappings \in PipelineConfigs
    /\ extract_defined \in BOOLEAN
    /\ TIMESTAMP = 1
    /\ pc = "loop"
    /\ next_survey = 1
    /\ all_survey_data = <<>>
    /\ nps_driver_data = <<>>
    /\ processing_summary = <<>>
    /\ attempt_log = <<>>
    /\ combined_ltr_drivers = None
    /\ combined_all_data = None
    /\ archive = NoFiles
    /\ current = NoFiles
    /\ fn_call = Idle
    /\ fn_result = None
    /\ run = 1
    /\ to_write = <<>>
    /\ file_open = FALSE
    /\ archive_run = NoRuns
    /\ current_run = NoRuns

\* one iteration of "for survey_name in SURVEYS".  The inputs are what the
\* outside world does in this pass; one that is never consulted (the query
\* when the SQL file is missing, the mapper when it is not called) is fixed.
ProcessSurvey ==
    /\ pc = "loop"
    /\ next_survey <= Len(SURVEYS)
    /\ \E file_exists \in BOOLEAN, transform_raises \in BOOLEAN,
          query \in QueryFrames(SURVEYS[next_survey]) \cup {None} :
          /\ ~file_exists => query = None
          /\ transform_raises =>
                TransformCalled(SURVEYS[next_survey], survey_column_mappings,
                                file_exists, query)
          /\ LET r == ProcessOne(SURVEYS[next_survey], next_survey, survey_column_mappings,
                                 extract_defined, file_exists, query, transform_raises)
             IN  /\ all_survey_data' = ListAppend(all_survey_data, r.all_add)
                 /\ nps_driver_data' = ListAppend(nps_driver_data, r.nps_add)
                 /\ processing_summary' = ListAppend(processing_summary, r.rows)
                 /\ attempt_log' = Append(attempt_log, r.log @@ [raised |-> r.raised])
                 /\ pc' = PcAfterSurvey(r.raised)
    /\ next_survey' = next_survey + 1
    /\ UNCHANGED <<SURVEYS, survey_column_mappings, extract_defined, TIMESTAMP,
                   combined_ltr_drivers, combined_all_data, archive, current,
                   fn_call, fn_result, run, to_write, file_open, archive_run, current_run>>

\* the for loop is exhausted: "Data processing complete"
LoopExit ==
    /\ pc = "loop"
    /\ next_survey > Len(SURVEYS)
    /\ pc' = "output"
    /\ UNCHANGED <<SURVEYS, survey_column_mappings, extract_defined, TIMESTAMP, next_survey,
                   all_survey_data, nps_driver_data, processing_summary, attempt_log,
                   combined_ltr_drivers, combined_all_data, archive, current,
                   fn_call, fn_result, run, to_write, file_open, archive_run, current_run>>

\* the output cell: each combined output is built and written only when its
\* list is not empty; the summary is always written.  The cell defining
\* extract_ltr_and_drivers sits between the loop cell and this one.
GenerateOutputs ==
    /\ pc = "output"
    /\ LET ltr == IF nps_driver_data # <<>> THEN concat(nps_driver_data) ELSE None
           all == IF all_survey_data # <<>> THEN concat(all_survey_data) ELSE None
           writes == OutputWrites(ltr, all, processing_summary, TIMESTAMP)
       IN  /\ combined_ltr_drivers' = IF ltr.none THEN combined_ltr_drivers ELSE ltr
           /\ combined_all_data' = IF all.none THEN combined_all_data ELSE all
           /\ archive' = AfterWrites(archive, writes, "archive")
           /\ current' = AfterWrites(current, writes, "current")
           /\ archive_run' = AfterWritesRun(archive_run, writes, "archive", run)
           /\ current_run' = AfterWritesRun(current_run, writes, "current", run)
    /\ extract_defined' = TRUE
    /\ pc' = "done"
    /\ UNCHANGED <<SURVEYS, survey_column_mappings, TIMESTAMP, next_survey,
                   all_survey_data, nps_driver_data, processing_summary, attempt_log,
                   fn_call, fn_result, run, to_write, file_open>>

Next == ProcessSurvey \/ LoopExit \/ GenerateOutputs

Spec == Init /\ [][Next]_vars


\* ------------------------------------------- runs over the same directories
\* The notebook run again and again over rag_outputs/, the output cell seen
\* as the outside sees it: one to_csv call after the other, each opening its
\* file (which empties it) and closing it when the content is written.
RunsInit == Init /\ SURVEYS = <<"survey_1">>

\* the output cell up to its first to_csv call: the combined outputs are
\* built; the cell defining extract_ltr_and_drivers has run before it
BeginOutput ==
    /\ pc = "output"
    /\ LET ltr == IF nps_driver_data # <<>> THEN concat(nps_driver_data) ELSE None
           all == IF all_survey_data # <<>> THEN concat(all_survey_data) ELSE None
       IN  /\ combined_ltr_drivers' = IF ltr.none THEN combined_ltr_drivers ELSE ltr
           /\ combined_all_data' = IF all.none THEN combined_all_data ELSE all
           /\ to_write' = OutputWrites(ltr, all, processing_summary, TIMESTAMP)
    /\ extract_defined' = TRUE
    /\ pc' = "writing"
    /\ UNCHANGED <<SURVEYS, survey_column_mappings, TIMESTAMP, next_survey,
                   all_survey_data, nps_driver_data, processing_summary, attempt_log,
                   archive, current, fn_call, fn_result, run, file_open,
                   archive_run, current_run>>

\* to_csv(path) opens path for writing: the file is there and incomplete
OpenFile ==
    /\ pc = "writing"
    /\ to_write # <<>>
    /\ ~file_open
    /\ LET w == Head(to_write)
       IN  IF w.dir = "archive"
           THEN archive' = WriteFile(archive, w.name, PartialFile) /\ UNCHANGED current
           ELSE current' = WriteFile(current, w.name, PartialFile) /\ UNCHANGED archive
    /\ file_open' = TRUE
    /\ UNCHANGED <<SURVEYS, survey_column_mappings, extract_defined, TIMESTAMP, pc,
                   next_survey, all_survey_data, nps_driver_data, processing_summary,
                   attempt_log, combined_ltr_drivers, combined_all_data, fn_call,
                   fn_result, run, to_write, archive_run, current_run>>

\* to_csv(path) has written everything and closes the file
CloseFile ==
    /\ pc = "writing"
    /\ file_open
    /\ LET w == Head(to_write)
       IN  IF w.dir = "archive"
           THEN /\ archive' = WriteFile(archive, w.name, CompleteFile(w.data))
                /\ archive_run' = WriteFile(archive_run, w.name, run)
                /\ UNCHANGED <<current, current_run>>
           ELSE /\ current' = WriteFile(current, w.name, CompleteFile(w.data))
                /\ current_run' = WriteFile(current_run, w.name, run)
                /\ UNCHANGED <<archive, archive_run>>
    /\ to_write' = Tail(to_write)
    /\ file_open' = FALSE
    /\ UNCHANGED <<SURVEYS, survey_column_mappings, extract_defined, TIMESTAMP, pc,
                   next_survey, all_survey_data, nps_driver_data, processing_summary,
                   attempt_log, combined_ltr_drivers, combined_all_data, fn_call,
                   fn_result, run>>

\* the output cell has made its last to_csv call
EndOutput ==
    /\ pc = "writing"
    /\ to_write = <<>>
    /\ ~file_open
    /\ pc' = "done"
    /\ UNCHANGED <<SURVEYS, survey_column_mappings, extract_defined, TIMESTAMP,
                   next_survey, all_survey_data, nps_driver_data, processing_summary,
                   attempt_log, combined_ltr_drivers, combined_all_data, archive, current,
                   fn_call, fn_result, run, to_write, file_open, archive_run, current_run>>

\* The notebook is run again in the same kernel.  TIMESTAMP is what the
\* configuration cell reads from the clock, to the second: it stays
\* (elapsed = 0) when the clock still shows the second of the run before, or
\* when the cells are run again from the storage cell on; the storage cell
\* empties the three lists; what the cells of the run before defined stays.
StartRun ==
    /\ pc = "done"
    /\ run < MaxRuns
    /\ run' = run + 1
    /\ \E elapsed \in {0, 1} : TIMESTAMP' = TIMESTAMP + elapsed
    /\ all_survey_data' = <<>>
    /\ nps_driver_data' = <<>>
    /\ processing_summary' = <<>>
    /\ attempt_log' = <<>>
    /\ next_survey' = 1
    /\ pc' = "loop"
    /\ UNCHANGED <<SURVEYS, survey_column_mappings, extract_defined,
                   combined_ltr_drivers, combined_all_data, archive, current,
                   fn_call, fn_result, to_write, file_open, archive_run, current_run>>

RunsNext ==
    \/ ProcessSurvey
    \/ LoopExit
    \/ BeginOutput
    \/ OpenFile
    \/ CloseFile
    \/ EndOutput
    \/ StartRun

SpecRuns == RunsInit /\ [][RunsNext]_vars

\* One run of a one-survey list that is carried through: the for statement
\* goes on until the list is exhausted (the try/except is inside its body,
\* no exception leaves the loop cell) and the output cell is run after it.
FairSpec == RunsInit /\ [][Next]_vars /\ WF_vars(Next)

\* ------------------------------------------------- direct function calls
\* The functions of the notebook called on their own, on every column set
\* over FnColumns and every taxonomy of Taxonomies.
FnColumns ==
    {"ResponseID", "NPS_Score", "Satisfaction_Rating", "Demographics_Age",
     "Weird_Column", "Survey_Name", "Processed_Date"}

Categories == {"STANDARD", "LTR", "DRIVERS", "METADATA"}

\* ALL_COLUMNS, and every typing of every subset of three survey columns
Taxonomies ==
    {ALL_COLUMNS} \cup
    UNION {[D -> Categories] :
              D \in SUBSET {"NPS_Score", "Satisfaction_Rating", "Demographics_Age"}}

\* the lists of frames handed to concat: position a holds a frame of survey a
RECURSIVE FrameLists(_)
FrameLists(n) ==
    IF n = 0 THEN {<<>>}
    ELSE {Append(l, f) : l \in FrameLists(n - 1), f \in QueryFrames(AllSurveys[n])}

FnInit ==
    /\ SURVEYS = <<>>
    /\ survey_column_mappings = [sv \in {} |-> EmptyMapping]
    /\ extract_defined = TRUE
    /\ TIMESTAMP = 1
    /\ pc = "idle"
    /\ next_survey = 1
    /\ all_survey_data = <<>>
    /\ nps_driver_data = <<>>
    /\ processing_summary = <<>>
    /\ attempt_log = <<>>
    /\ combined_ltr_drivers = None
    /\ combined_all_data = None
    /\ archive = NoFiles
    /\ current = NoFiles
    /\ fn_call = Idle
    /\ fn_result = None
    /\ run = 1
    /\ to_write = <<>>
    /\ file_open = FALSE
    /\ archive_run = NoRuns
    /\ current_run = NoRuns

PipelineUnchanged ==
    UNCHANGED <<SURVEYS, survey_column_mappings, extract_defined, TIMESTAMP, pc, next_survey,
                all_survey_data, nps_driver_data, processing_summary, attempt_log,
                combined_ltr_drivers, combined_all_data, archive, current,
                run, to_write, file_open, archive_run, current_run>>

CallValidateColumns ==
    /\ fn_call = Idle
    /\ \E columns \in SUBSET FnColumns, all_columns_dict \in Taxonomies :
          /\ fn_call' = [f |-> "validate_columns", columns |-> columns,
                         all_columns_dict |-> all_columns_dict]
          /\ fn_result' = validate_columns(columns, all_columns_dict)
    /\ PipelineUnchanged

CallExtract ==
    /\ fn_call = Idle
    /\ \E columns \in SUBSET FnColumns, nrows \in 0..MaxRows, all_columns_dict \in Taxonomies :
          LET df == QueryFrame("survey_1", columns, nrows)
          IN  /\ fn_call' = [f |-> "extract_ltr_and_drivers", df |-> df,
                             all_columns_dict |-> all_columns_dict]
              /\ fn_result' = extract_ltr_and_drivers(df, all_columns_dict)
    /\ PipelineUnchanged

CallConcat ==
    /\ fn_call = Idle
    /\ \E n \in 1..MaxFrames : \E dfs \in FrameLists(n) :
          /\ fn_call' = [f |-> "concat", dfs |-> dfs]
          /\ fn_result' = concat(dfs)
    /\ PipelineUnchanged

\* execute_query_and_load_data called on its own, with the default connection
\* or with one the caller made
CallExecuteQuery ==
    /\ fn_call = Idle
    /\ \E survey_name \in {"survey_1", "survey_2"},
          connection \in {NoConnection, "caller_connection"},
          file_exists \in BOOLEAN :
       \E query \in QueryFrames(survey_name) \cup {None} :
          /\ ~file_exists => query = None
          /\ fn_call' = [f |-> "execute_query_and_load_data", survey_name |-> survey_name,
                         connection |-> connection, file_exists |-> file_exists,
                         query |-> query]
          /\ fn_result' = execute_query_and_load_data(survey_name, connection,
                                                      file_exists, query)
    /\ PipelineUnchanged

\* ---- the mapper called on its own
\* the column configurations the mapper is called with: those of the
\* pipeline, and one whose survey_3 maps NPS_Score to another dictionary than
\* the default rule and a custom metric to the custom dictionary
FnConfigMenu ==
    ConfigMenu \cup
    { ("survey_3" :> (("NPS_Score" :> "satisfaction_5_scale")
                      @@ ("Custom_Metric_2" :> "reverse_3_scale"))) }

\* survey_4 is configured nowhere
FnSurveys == {"survey_1", "survey_2", "survey_3", "survey_4"}

\* the columns of the datasets handed to the mapper
MapperColumns ==
    {"NPS_Score", "Satisfaction_Rating", "Yes_No_Question", "Custom_Metric_1",
     "Custom_Metric_2", "Demographics_Age"}

\* response labels in canonical form (trimmed, lower case)
FnLabels ==
    { <<"y", "e", "s">>, <<"n", "o">>, <<"m", "a", "y", "b", "e">>,
      <<"1", "0">>, <<"3">>, <<>>,
      <<"d", "i", "s", "s", "a", "t", "i", "s", "f", "i", "e", "d">>,
      <<"v", "e", "r", "y", " ", "s", "a", "t", "i", "s", "f", "i", "e", "d">>,
      <<"s", "o", "m", "e", "w", "h", "a", "t", " ", "o", "k">> }

ToUpper(ch) ==
    IF \E k \in 1..Len(Lower) : Lower[k] = ch
    THEN Upper[CHOOSE k \in 1..Len(Lower) : Lower[k] = ch]
    ELSE ch

Styles == {"lower", "title", "upper"}

\* a label as a respondent may have typed it: all lower case, every word
\* capitalised, or all capitals
Cased(label, style) ==
    [k \in 1..Len(label) |->
        IF style = "upper" \/ (style = "title" /\ (k = 1 \/ label[k - 1] = " "))
        THEN ToUpper(label[k])
        ELSE label[k]]

Spaces(n) == [k \in 1..n |-> " "]

\* the label in some letter case between l leading and r trailing spaces
Variant(label, style, l, r) == Spaces(l) \o Cased(label, style) \o Spaces(r)

\* the values that are not text
NonTextValues == {NaN, Num(1), Num(3), Num(7)}

\* one value sent through one dictionary.  label is the canonical label the
\* text was typed from (empty for a value that is not text).
CallMapValue ==
    /\ fn_call = Idle
    /\ \E d \in DOMAIN mapping_dictionaries :
          \/ \E label \in FnLabels, style \in Styles, l \in 0..MaxPad, r \in 0..MaxPad :
                LET value == Str(Variant(label, style, l, r))
                IN  /\ fn_call' = [f |-> "map_value", value |-> value, label |-> label,
                                   dictionary |-> d]
                    /\ fn_result' = MapValue(value, mapping_dictionaries[d])
          \/ \E value \in NonTextValues :
                /\ fn_call' = [f |-> "map_value", value |-> value, label |-> <<>>,
                               dictionary |-> d]
                /\ fn_result' = MapValue(value, mapping_dictionaries[d])
    /\ PipelineUnchanged

CallGetEffectiveMappings ==
    /\ fn_call = Idle
    /\ \E config \in FnConfigMenu, survey_name \in FnSurveys,
          present_columns \in SUBSET MapperColumns, include_defaults \in BOOLEAN :
          /\ fn_call' = [f |-> "get_effective_mappings", config |-> config,
                         survey_name |-> survey_name,
                         present_columns |-> present_columns,
                         include_defaults |-> include_defaults]
          /\ fn_result' = get_effective_mappings(config, survey_name, present_columns,
                                                 include_defaults)
    /\ PipelineUnchanged

CallValidateSurveyConfig ==
    /\ fn_call = Idle
    /\ \E config \in FnConfigMenu, survey_name \in FnSurveys,
          columns \in SUBSET MapperColumns, nrows \in 0..1 :
          LET df == QueryFrame("survey_1", columns, nrows)
          IN  /\ fn_call' = [f |-> "validate_survey_config", config |-> config,
                             survey_name |-> survey_name, df |-> df]
              /\ fn_result' = validate_survey_config(config, survey_name, df)
    /\ PipelineUnchanged

\* mapper.transform_survey on a dataset as the source returns it
CallTransformSurvey ==
    /\ fn_call = Idle
    /\ \E config \in FnConfigMenu, survey_name \in FnSurveys,
          columns \in SUBSET MapperColumns, nrows \in 0..MaxRows,
          include_defaults \in BOOLEAN :
          LET df == QueryFrame(survey_name, columns, nrows)
          IN  /\ fn_call' = [f |-> "transform_survey", config |-> config,
                             survey_name |-> survey_name, df |-> df,
                             include_defaults |-> include_defaults]
              /\ fn_result' = transform_survey(config, df, survey_name, include_defaults)
    /\ PipelineUnchanged

\* mapper.transform_survey on the dataset the call before returned, same
\* survey and configuration; original is the dataset of the first call
CallTransformSurveyAgain ==
    /\ fn_call.f = "transform_survey"
    /\ fn_call' = [f |-> "transform_survey_again", config |-> fn_call.config,
                   survey_name |-> fn_call.survey_name, df |-> fn_result,
                   include_defaults |-> fn_call.include_defaults,
                   original |-> fn_call.df]
    /\ fn_result' = transform_survey(fn_call.config, fn_result, fn_call.survey_name,
                                     fn_call.include_defaults)
    /\ PipelineUnchanged

FnNext ==
    \/ CallExecuteQuery
    \/ CallValidateColumns
    \/ CallExtract
    \/ CallConcat
    \/ CallMapValue
    \/ CallGetEffectiveMappings
    \/ CallValidateSurveyConfig
    \/ CallTransformSurvey
    \/ CallTransformSurveyAgain

SpecFn == FnInit /\ [][FnNext]_vars

\* ================================================================= claims
\* helpers of the statements below

\* the loop has been left
LoopOver == pc # "loop"

\* the columns of a frame outside the taxonomy, the bookkeeping columns aside
UnknownColumns(frame) ==
    {c \in frame.cols : c \notin {"Survey_Name", "Processed_Date"} /\ c \notin DOMAIN ALL_COLUMNS}

\* what the outside world did to the survey at list position k
SourceFailed(k) == ~attempt_log[k].file_exists \/ attempt_log[k].query.none
ValidationFailed(k) == ~SourceFailed(k) /\ UnknownColumns(attempt_log[k].query) # {}
PassedValidation(k) == ~SourceFailed(k) /\ UnknownColumns(attempt_log[k].query) = {}
SourceRows(k) == IF SourceFailed(k) THEN 0 ELSE Len(attempt_log[k].query.rows)

StatusOf(k) == processing_summary[k].Processing_Status

\* the number of rows of a frame that carry the name of a survey
RowsFrom(df, survey_name) ==
    Cardinality({j \in 1..Len(df.rows) :
                    /\ "Survey_Name" \in df.cols
                    /\ df.rows[j]["Survey_Name"] = NameCell(survey_name)})

\* C1: every survey of the list is attempted, in list order, whatever the
\* earlier surveys did: once the loop is over the attempts are exactly the
\* list, and while it runs the attempts are a prefix of it and the loop is
\* still going.
C1_EverySurveyAttempted ==
    /\ Len(attempt_log) <= Len(SURVEYS)
    /\ \A k \in 1..Len(attempt_log) :
          attempt_log[k].survey = SURVEYS[k] /\ "load_sql" \in attempt_log[k].stages
    /\ LoopOver => Len(attempt_log) = Len(SURVEYS)
    /\ Len(attempt_log) < Len(SURVEYS) => pc = "loop" /\ next_survey = Len(attempt_log) + 1

\* C1 witness: the first survey raised in the transformation and the second
\* one was fetched, validated, transformed and aggregated all the same.
C1_Witness ==
    /\ pc = "done"
    /\ Len(SURVEYS) >= 2
    /\ StatusOf(1) = "Error: transformation failed"
    /\ StatusOf(2) = "Success"
    /\ attempt_log[2].stages = {"load_sql", "query", "validate", "transform", "aggregate"}

\* C2: when the loop is over the summary has one row per entry of the survey
\* list, in list order, whatever each survey's outcome; while it runs, one row
\* per attempted survey.
C2_OneSummaryRowPerSurvey ==
    /\ Len(processing_summary) = Len(attempt_log)
    /\ \A k \in 1..Len(processing_summary) : processing_summary[k].Survey_Name = SURVEYS[k]
    /\ LoopOver => Len(processing_summary) = Len(SURVEYS)

\* C2 witness: a finished loop whose two surveys failed in different ways,
\* one by an exception and one by a failed load, both with their row.
C2_Witness ==
    /\ pc = "output"
    /\ Len(SURVEYS) = 2
    /\ StatusOf(1) = "Error: SQL file not found"
    /\ StatusOf(2) = "Failed to load"

\* the sum of f[k] over k in 1..n
RECURSIVE SumTo(_, _)
SumTo(f, n) == IF n = 0 THEN 0 ELSE f[n] + SumTo(f, n - 1)

\* the transformation of the survey at list position k raised
TransformRaised(k) ==
    \/ attempt_log[k].transform_raises
    \/ /\ PassedValidation(k)
       /\ SourceRows(k) > 0
       /\ SURVEYS[k] \in DOMAIN survey_column_mappings
       /\ \E c \in DOMAIN survey_column_mappings[SURVEYS[k]] :
             /\ c \in attempt_log[k].query.cols
             /\ survey_column_mappings[SURVEYS[k]][c] \notin DOMAIN mapping_dictionaries

\* C3 as stated: at the end of a run the row count of combined_all_surveys is
\* the sum of the row counts of the datasets that passed column validation.
C3_RowsEqualValidatedRows ==
    pc = "done" =>
        NumRows(combined_all_data) =
            SumTo([k \in 1..Len(attempt_log) |->
                      IF PassedValidation(k) THEN SourceRows(k) ELSE 0],
                  Len(attempt_log))

\* C3 amended: at the end of a run the row count of combined_all_surveys is
\* the sum of the row counts of the datasets that passed column validation and
\* whose transformation did not raise; a survey that failed to load, failed
\* validation or raised in the transformation contributes no row.
C3_RowsEqualStoredRows ==
    pc = "done" =>
        /\ NumRows(combined_all_data) =
              SumTo([k \in 1..Len(attempt_log) |->
                        IF PassedValidation(k) /\ ~TransformRaised(k)
                        THEN SourceRows(k) ELSE 0],
                    Len(attempt_log))
        /\ \A k \in 1..Len(attempt_log) :
              SourceFailed(k) \/ ValidationFailed(k) \/ TransformRaised(k)
                  => RowsFrom(combined_all_data, SURVEYS[k]) = 0

\* C3 witness: a finished run in which one survey with rows failed validation
\* and the other passed, and the combined output has the rows of the second.
C3_Witness ==
    /\ pc = "done"
    /\ \E k1, k2 \in 1..Len(attempt_log) :
          /\ ValidationFailed(k1) /\ SourceRows(k1) > 0
          /\ PassedValidation(k2) /\ SourceRows(k2) = MaxRows
          /\ NumRows(combined_all_data) = MaxRows

\* the survey at list position k was stored in all_survey_data: it passed
\* validation, had rows and its transformation did not raise
Stored(k) == PassedValidation(k) /\ SourceRows(k) > 0 /\ ~TransformRaised(k)

\* the columns the stored surveys bring: their own and the two bookkeeping ones
StoredColumns ==
    UNION {attempt_log[k].query.cols \cup {"Survey_Name", "Processed_Date"} :
              k \in {i \in 1..Len(attempt_log) : Stored(i)}}

\* C4: column validation is all-or-nothing.  A survey with a column outside
\* the taxonomy has no row in any stored frame nor in either combined output,
\* brings no column to them (their columns are those of the stored surveys
\* only), and the loop goes on to the next survey.
C4_InvalidSurveyContributesNothing ==
    /\ \A k \in 1..Len(attempt_log) :
          ValidationFailed(k) =>
              /\ \A a \in 1..Len(all_survey_data) :
                    RowsFrom(all_survey_data[a], SURVEYS[k]) = 0
              /\ \A a \in 1..Len(nps_driver_data) :
                    RowsFrom(nps_driver_data[a], SURVEYS[k]) = 0
              /\ RowsFrom(combined_all_data, SURVEYS[k]) = 0
              /\ RowsFrom(combined_ltr_drivers, SURVEYS[k]) = 0
              /\ k < Len(SURVEYS) =>
                    \/ Len(attempt_log) > k
                    \/ pc = "loop" /\ next_survey = k + 1
    /\ \A a \in 1..Len(all_survey_data) : all_survey_data[a].cols \subseteq StoredColumns
    /\ \A a \in 1..Len(nps_driver_data) : nps_driver_data[a].cols \subseteq StoredColumns
    /\ ~combined_all_data.none => combined_all_data.cols = StoredColumns
    /\ combined_ltr_drivers.cols \subseteq StoredColumns

\* C4 witness: the first survey returned rows with ResponseID, Timestamp and
\* Weird_Column and was dropped whole; the second was processed; the combined
\* output has neither Weird_Column nor Timestamp.
C4_Witness ==
    /\ pc = "done"
    /\ Len(attempt_log) = 2
    /\ ValidationFailed(1)
    /\ attempt_log[1].query.cols = {"ResponseID", "Timestamp", "Weird_Column"}
    /\ SourceRows(1) = MaxRows
    /\ StatusOf(2) = "Success"
    /\ NumRows(combined_all_data) = SourceRows(2)
    /\ "Weird_Column" \notin combined_all_data.cols
    /\ "Timestamp" \notin combined_all_data.cols
    /\ ~combined_ltr_drivers.none

\* C5: a survey that fails column validation gets a summary row with a status
\* of its own, the validation-failure variant of Error, which is none of the
\* statuses of the other outcomes; in particular it is not the status of a
\* survey whose record source failed to load.
C5_ValidationFailureHasOwnStatus ==
    \A k \in 1..Len(processing_summary) :
        ValidationFailed(k) => StatusOf(k) \notin {"Success", "No Data", "Failed to load"}

\* C6: validate_columns returns as invalid_columns the columns of the dataset
\* that are neither a bookkeeping column nor a column of the taxonomy, and
\* is_valid exactly when there is none.
C6_ValidateColumns ==
    fn_call.f = "validate_columns" =>
        LET expected == {c \in fn_call.columns :
                            /\ c # "Survey_Name"
                            /\ c # "Processed_Date"
                            /\ c \notin DOMAIN fn_call.all_columns_dict}
        IN  /\ fn_result.invalid_columns = expected
            /\ fn_result.is_valid <=> expected = {}

\* C6 witness: with both bookkeeping columns present and one column outside
\* the taxonomy, the result is invalid with exactly that column.
C6_Witness ==
    /\ fn_call.f = "validate_columns"
    /\ fn_call.all_columns_dict = ALL_COLUMNS
    /\ fn_call.columns = {"ResponseID", "Survey_Name", "Processed_Date", "Weird_Column"}
    /\ fn_result = [is_valid |-> FALSE, invalid_columns |-> {"Weird_Column"}]

\* C7: extract_ltr_and_drivers returns None exactly when the dataset has no
\* LTR and no DRIVERS column; otherwise the same rows restricted to the
\* STANDARD, LTR and DRIVERS columns and the bookkeeping columns present,
\* never a METADATA column.
C7_ExtractLtrAndDrivers ==
    fn_call.f = "extract_ltr_and_drivers" =>
        LET df == fn_call.df
            cat(c) == CategoryOf(fn_call.all_columns_dict, c)
            kept == {c \in df.cols :
                        \/ cat(c) \in {"STANDARD", "LTR", "DRIVERS"}
                        \/ c \in {"Survey_Name", "Processed_Date"}}
        IN  /\ fn_result.none <=> ~\E c \in df.cols : cat(c) \in {"LTR", "DRIVERS"}
            /\ ~fn_result.none =>
                  /\ fn_result.cols = kept
                  /\ \A c \in fn_result.cols : cat(c) # "METADATA"
                  /\ Len(fn_result.rows) = Len(df.rows)
                  /\ \A j \in 1..Len(df.rows) :
                        /\ DOMAIN fn_result.rows[j] = kept
                        /\ \A c \in kept : fn_result.rows[j][c] = df.rows[j][c]

\* C7 witness: a dataset with a STANDARD, a DRIVERS and a METADATA column and
\* Survey_Name is projected on the three others, rows kept.
C7_Witness ==
    /\ fn_call.f = "extract_ltr_and_drivers"
    /\ fn_call.all_columns_dict = ALL_COLUMNS
    /\ fn_call.df.cols = {"ResponseID", "Satisfaction_Rating", "Demographics_Age",
                          "Survey_Name"}
    /\ Len(fn_call.df.rows) = MaxRows
    /\ fn_result.cols = {"ResponseID", "Satisfaction_Rating", "Survey_Name"}
    /\ Len(fn_result.rows) = MaxRows

\* the number of rows of the frames before position a of a list
RECURSIVE RowsBefore(_, _)
RowsBefore(dfs, a) ==
    IF a = 1 THEN 0 ELSE Len(dfs[a - 1].rows) + RowsBefore(dfs, a - 1)

\* C9: the columns of concat's result are the union of the inputs' columns;
\* every input row is in the result at its place, with its own values in its
\* own columns and NaN in each column its dataset did not have.
C9_ConcatUnionWithNaN ==
    fn_call.f = "concat" =>
        LET dfs == fn_call.dfs
            union == UNION {dfs[a].cols : a \in 1..Len(dfs)}
        IN  /\ fn_result.cols = union
            /\ Len(fn_result.rows) = RowsBefore(dfs, Len(dfs) + 1)
            /\ \A a \in 1..Len(dfs) : \A j \in 1..Len(dfs[a].rows) :
                  LET out == fn_result.rows[RowsBefore(dfs, a) + j]
                  IN  /\ DOMAIN out = union
                      /\ \A c \in union :
                            out[c] = IF c \in dfs[a].cols THEN dfs[a].rows[j][c] ELSE NaN

\* C9 witness: two frames with rows, the first without Satisfaction_Rating and
\* the second without Timestamp; the first result row holds NaN under
\* Satisfaction_Rating and its own value under Timestamp.
C9_Witness ==
    /\ fn_call.f = "concat"
    /\ Len(fn_call.dfs) = 2
    /\ fn_call.dfs[1].cols = {"ResponseID", "Timestamp", "NPS_Score"}
    /\ fn_call.dfs[2].cols = {"ResponseID", "Satisfaction_Rating", "Custom_Metric_1"}
    /\ Len(fn_call.dfs[1].rows) = MaxRows
    /\ Len(fn_call.dfs[2].rows) = MaxRows
    /\ fn_result.rows[1]["Satisfaction_Rating"] = NaN
    /\ fn_result.rows[1]["Timestamp"] = Time(0)
    /\ fn_result.rows[MaxRows + 1]["Timestamp"] = NaN

\* the survey at list position k has a column of category LTR or DRIVERS
HasKeyColumn(k) ==
    \E c \in attempt_log[k].query.cols :
        c \in DOMAIN ALL_COLUMNS /\ ALL_COLUMNS[c] \in {"LTR", "DRIVERS"}

\* C8: at the end of a run combined_ltr_drivers holds exactly the rows of the
\* successfully processed surveys with an LTR or DRIVERS column: such a survey
\* has all its rows there, a successful survey without such a column has none
\* there and all its rows in combined_all_surveys, and a survey that was not
\* successfully processed has none there.
C8_LtrDriverRows ==
    pc = "done" =>
        /\ \A k \in 1..Len(attempt_log) :
              /\ StatusOf(k) = "Success" =>
                    /\ RowsFrom(combined_ltr_drivers, SURVEYS[k]) =
                          IF HasKeyColumn(k) THEN SourceRows(k) ELSE 0
                    /\ RowsFrom(combined_all_data, SURVEYS[k]) = SourceRows(k)
              /\ StatusOf(k) # "Success" => RowsFrom(combined_ltr_drivers, SURVEYS[k]) = 0
        /\ NumRows(combined_ltr_drivers) =
              SumTo([k \in 1..Len(attempt_log) |->
                        RowsFrom(combined_ltr_drivers, SURVEYS[k])], Len(attempt_log))

\* C8 witness (scenario D at the model's size): survey_1 brings MaxRows rows
\* with an LTR column, survey_2 one row with METADATA columns only; the
\* LTR/driver output has MaxRows rows and the full output MaxRows + 1.
C8_Witness ==
    /\ pc = "done"
    /\ Len(attempt_log) = 2
    /\ StatusOf(1) = "Success" /\ StatusOf(2) = "Success"
    /\ attempt_log[1].query.cols = {"ResponseID", "Timestamp", "NPS_Score"}
    /\ SourceRows(1) = MaxRows
    /\ attempt_log[2].query.cols = {"Demographics_Age", "Free_Text_Feedback"}
    /\ SourceRows(2) = 1
    /\ NumRows(combined_ltr_drivers) = MaxRows
    /\ NumRows(combined_all_data) = MaxRows + 1

\* the list position of the survey a row of a combined output is named after
RowSurvey(row) ==
    CHOOSE k \in 1..Len(SURVEYS) : row["Survey_Name"] = NameCell(SURVEYS[k])

\* the rows of an output that carry the name of the survey at position k, in
\* the output's order
RECURSIVE RowsOfSurvey(_, _)
RowsOfSurvey(rows, k) ==
    IF rows = <<>> THEN <<>>
    ELSE (IF Head(rows)["Survey_Name"] = NameCell(SURVEYS[k]) THEN <<Head(rows)>> ELSE <<>>)
            \o RowsOfSurvey(Tail(rows), k)

\* the rows of an output are in survey order, those of one survey in the
\* order the source gave them (the source numbers ResponseID 1, 2, ... in
\* every survey), and each contributing survey has all its rows there
InProcessingOrder(out, contributes(_)) ==
    /\ \A j \in 1..Len(out.rows) :
          \E k \in 1..Len(SURVEYS) : out.rows[j]["Survey_Name"] = NameCell(SURVEYS[k])
    /\ \A i, j \in 1..Len(out.rows) :
          i < j => RowSurvey(out.rows[i]) <= RowSurvey(out.rows[j])
    /\ \A k \in 1..Len(attempt_log) :
          LET own == RowsOfSurvey(out.rows, k)
          IN  /\ Len(own) = IF contributes(k) THEN SourceRows(k) ELSE 0
              /\ \A j \in 1..Len(own) :
                    "ResponseID" \in attempt_log[k].query.cols
                        => own[j]["ResponseID"] = Num(j)

InFullOutput(k) == Stored(k)
InLtrOutput(k) == Stored(k) /\ HasKeyColumn(k) /\ StatusOf(k) = "Success"

\* C10: in both combined outputs the rows are in survey processing order,
\* each survey's rows in their original order, and none is dropped or merged,
\* also when two surveys carry the same response identifiers.
C10_RowsInProcessingOrder ==
    pc = "done" =>
        /\ InProcessingOrder(combined_all_data, InFullOutput)
        /\ InProcessingOrder(combined_ltr_drivers, InLtrOutput)

\* C10 witness: two surveys with MaxRows rows each and the same response
\* identifiers 1..MaxRows; both outputs have 2 * MaxRows rows, the identifier
\* 1 at row 1 and again at row MaxRows + 1.
C10_Witness ==
    /\ pc = "done"
    /\ Len(attempt_log) = 2
    /\ SourceRows(1) = MaxRows /\ SourceRows(2) = MaxRows
    /\ NumRows(combined_all_data) = 2 * MaxRows
    /\ NumRows(combined_ltr_drivers) = 2 * MaxRows
    /\ "ResponseID" \in attempt_log[1].query.cols
    /\ "ResponseID" \in attempt_log[2].query.cols
    /\ combined_all_data.rows[1]["ResponseID"] = Num(1)
    /\ combined_all_data.rows[MaxRows + 1]["ResponseID"] = Num(1)
    /\ combined_ltr_drivers.rows[MaxRows + 1]["ResponseID"] = Num(1)
    /\ combined_all_data.rows[1]["Survey_Name"] = NameCell("survey_1")
    /\ combined_all_data.rows[MaxRows + 1]["Survey_Name"] = NameCell("survey_2")

\* ------------------------------------------------------ claims on the mapper
\* C11: the per-value rule of the transformation.  A value sent through a
\* dictionary D comes back as itself when it is the "no value" marker NaN; as
\* the number D gives its normalised label when that label is a key of D; and
\* unchanged otherwise, neither an error nor a marker (a number is no label
\* and stays as it is).
C11_PerValueRule ==
    fn_call.f = "map_value" =>
        LET v == fn_call.value
            D == mapping_dictionaries[fn_call.dictionary]
        IN  /\ v = NaN => fn_result = NaN
            /\ v.t = "str" /\ fn_call.label \in DOMAIN D =>
                  fn_result = Num(D[fn_call.label])
            /\ v.t = "str" /\ fn_call.label \notin DOMAIN D => fn_result = v
            /\ v.t = "num" => fn_result = v

\* C11 witness (scenario B, third value): "Maybe" through yes_no_binary is a
\* miss and comes back as the text "Maybe".
C11_Witness ==
    /\ fn_call.f = "map_value"
    /\ fn_call.dictionary = "yes_no_binary"
    /\ fn_call.value = Str(<<"M", "a", "y", "b", "e">>)
    /\ fn_result = Str(<<"M", "a", "y", "b", "e">>)

\* C12: the lookup is normalised.  A text that differs from a label L only in
\* letter case and in leading or trailing spaces resolves as L itself does:
\* to the same number when L is a hit, and to a miss (the text kept) when L
\* is a miss.
C12_NormalizedLookup ==
    fn_call.f = "map_value" /\ fn_call.value.t = "str" =>
        LET D == mapping_dictionaries[fn_call.dictionary]
            canonical == MapValue(Str(fn_call.label), D)
        IN  IF canonical.t = "num"
            THEN fn_result = canonical
            ELSE /\ canonical = Str(fn_call.label)
                 /\ fn_result = fn_call.value

\* C12 witness (scenario A): " Very Satisfied  ", capitalised and between
\* spaces, resolves through satisfaction_5_scale to 5 as "very satisfied" does.
C12_Witness ==
    /\ fn_call.f = "map_value"
    /\ fn_call.dictionary = "satisfaction_5_scale"
    /\ fn_call.value =
          Str(<<" ", "V", "e", "r", "y", " ", "S", "a", "t", "i", "s", "f", "i", "e", "d",
                " ", " ">>)
    /\ fn_result = Num(5)

\* C13: the transformation is idempotent: transform_survey applied to its own
\* result, same survey and configuration, returns that result unchanged.
C13_TransformIdempotent ==
    fn_call.f = "transform_survey_again" => fn_result = fn_call.df

\* C13 witness: a first application that turned the text " 1" of a column on
\* the reverse-coded scale into the number 3, and a second application that
\* left the 3 alone although "3" is a key of that dictionary.
C13_Witness ==
    /\ fn_call.f = "transform_survey_again"
    /\ fn_call.survey_name = "survey_3"
    /\ "survey_3" \in DOMAIN fn_call.config
    /\ "Custom_Metric_2" \in fn_call.df.cols
    /\ \E j \in 1..Len(fn_result.rows) :
          /\ fn_call.original.rows[j]["Custom_Metric_2"] = Str(<<" ", "1">>)
          /\ fn_call.df.rows[j]["Custom_Metric_2"] = Num(3)
          /\ fn_result.rows[j]["Custom_Metric_2"] = Num(3)

\* C14: get_effective_mappings returns the survey's explicit mappings plus
\* each default rule whose column is present, is not explicitly configured
\* and only when include_defaults is true; an explicitly configured column
\* always keeps its explicit dictionary.
C14_EffectiveMappings ==
    fn_call.f = "get_effective_mappings" =>
        LET explicit == IF fn_call.survey_name \in DOMAIN fn_call.config
                        THEN fn_call.config[fn_call.survey_name]
                        ELSE EmptyMapping
            applied == {c \in DOMAIN default_mappings :
                           /\ c \in fn_call.present_columns
                           /\ c \notin DOMAIN explicit
                           /\ fn_call.include_defaults}
        IN  /\ DOMAIN fn_result = DOMAIN explicit \cup applied
            /\ \A c \in DOMAIN explicit : fn_result[c] = explicit[c]
            /\ \A c \in applied : fn_result[c] = default_mappings[c]

\* C14 witness: survey_3 maps NPS_Score to satisfaction_5_scale; with
\* NPS_Score and Satisfaction_Rating present and defaults on, NPS_Score keeps
\* the explicit dictionary, Satisfaction_Rating gets its default and the
\* absent Yes_No_Question gets nothing.
C14_Witness ==
    /\ fn_call.f = "get_effective_mappings"
    /\ fn_call.survey_name = "survey_3"
    /\ "survey_3" \in DOMAIN fn_call.config
    /\ fn_call.present_columns = {"NPS_Score", "Satisfaction_Rating", "Demographics_Age"}
    /\ fn_call.include_defaults
    /\ fn_result["NPS_Score"] = "satisfaction_5_scale"
    /\ default_mappings["NPS_Score"] = "recommendation_10_scale"
    /\ fn_result["Satisfaction_Rating"] = "satisfaction_5_scale"
    /\ "Yes_No_Question" \notin DOMAIN fn_result
    /\ "Custom_Metric_2" \in DOMAIN fn_result

\* C16: validate_survey_config returns (it does not raise) the two sets
\* missing, the columns configured for the survey that the dataset lacks,
\* and extra, the dataset columns no configured or default mapping covers;
\* missing is empty for a survey with no configured column.
C16_ValidateSurveyConfig ==
    fn_call.f = "validate_survey_config" =>
        LET configured == IF fn_call.survey_name \in DOMAIN fn_call.config
                          THEN DOMAIN fn_call.config[fn_call.survey_name]
                          ELSE {}
        IN  /\ DOMAIN fn_result = {"missing", "extra"}
            /\ fn_result.missing = {c \in configured : c \notin fn_call.df.cols}
            /\ fn_result.extra =
                  {c \in fn_call.df.cols :
                      c \notin configured /\ c \notin DOMAIN default_mappings}
            /\ configured = {} => fn_result.missing = {}

\* C16 witness: survey_1 is configured for Satisfaction_Rating and
\* Custom_Metric_1; on a dataset with NPS_Score, Custom_Metric_1 and
\* Demographics_Age the first is missing and only Demographics_Age is extra
\* (NPS_Score has a default rule).
C16_Witness ==
    /\ fn_call.f = "validate_survey_config"
    /\ fn_call.survey_name = "survey_1"
    /\ "survey_1" \in DOMAIN fn_call.config
    /\ fn_call.df.cols = {"NPS_Score", "Custom_Metric_1", "Demographics_Age"}
    /\ fn_result = [missing |-> {"Satisfaction_Rating"}, extra |-> {"Demographics_Age"}]

\* ---------------------------------------- claims on the mapper in the pipeline
\* the columns explicitly configured for the survey at list position k
ExplicitColumns(k) ==
    IF SURVEYS[k] \in DOMAIN survey_column_mappings
    THEN DOMAIN survey_column_mappings[SURVEYS[k]]
    ELSE {}

\* C15: default mappings reach every survey of a run.  For a successfully
\* processed survey, every column that has a default rule, is in the survey's
\* data and is not explicitly configured for it holds, in the full output, the
\* source values sent through the default dictionary -- also when the survey
\* has no explicit mapping at all.
C15_DefaultsReachEverySurvey ==
    pc = "done" =>
        \A k \in 1..Len(attempt_log) :
            StatusOf(k) = "Success" =>
                LET own == RowsOfSurvey(combined_all_data.rows, k)
                    source == attempt_log[k].query
                IN  \A c \in DOMAIN default_mappings :
                        c \in source.cols /\ c \notin ExplicitColumns(k) =>
                            \A j \in 1..Len(own) :
                                own[j][c] =
                                    MapValue(source.rows[j][c],
                                             mapping_dictionaries[default_mappings[c]])

\* the survey at list position k came back from the source with rows and
\* passed column validation: the configuration diagnostic is about its data
HasData(k) == PassedValidation(k) /\ SourceRows(k) > 0

\* the columns of the survey's dataset when the diagnostic looks at it
DiagnosedColumns(k) == attempt_log[k].query.cols \cup {"Survey_Name", "Processed_Date"}

\* the two sets of the configuration diagnostic, from the configuration
\* and the data
DiagMissing(k) == {c \in ExplicitColumns(k) : c \notin DiagnosedColumns(k)}
DiagExtra(k) ==
    {c \in DiagnosedColumns(k) :
        c \notin ExplicitColumns(k) /\ c \notin DOMAIN default_mappings}

\* C17: the configuration diagnostic never blocks processing.  A survey with
\* data whose diagnostic is not clean (a configured column missing from the
\* data, or a column no mapping covers) gets status Success and, at the end of
\* the run, has all its rows in the full output and, when it has an LTR or
\* DRIVERS column, in the LTR/driver output.
C17_DiagnosticNeverBlocks ==
    \A k \in 1..Len(attempt_log) :
        HasData(k) /\ (DiagMissing(k) # {} \/ DiagExtra(k) # {}) =>
            /\ StatusOf(k) = "Success"
            /\ pc = "done" =>
                  /\ RowsFrom(combined_all_data, SURVEYS[k]) = SourceRows(k)
                  /\ HasKeyColumn(k) =>
                        RowsFrom(combined_ltr_drivers, SURVEYS[k]) = SourceRows(k)

\* ------------------------------------------------- claims on the run files
\* C18: the archive is append-only across runs.  No step changes or removes an
\* archive file that an earlier run wrote, and a completed run has added an
\* archive file of its own under its timestamp.
C18_ArchiveAppendOnly ==
    /\ [][\A f \in DOMAIN archive :
             f \in DOMAIN archive_run /\ archive_run[f] < run' =>
                 f \in DOMAIN archive' /\ archive'[f] = archive[f]]_vars
    /\ [](pc = "done" =>
             /\ <<"Processing_Summary", TIMESTAMP>> \in DOMAIN archive_run
             /\ archive_run[<<"Processing_Summary", TIMESTAMP>>] = run)

\* the three files of the current location
CurrentFiles ==
    {"combined_ltr_drivers.csv", "combined_all_surveys.csv", "processing_summary.csv"}

\* C19: after a completed run each of the three files found at the current
\* location was written by that run; none is a leftover of an earlier run.
C19_CurrentWrittenByLastRun ==
    pc = "done" =>
        \A f \in CurrentFiles : f \in DOMAIN current => current_run[f] = run

\* C20: at every instant every file of the current location is complete: a
\* reader never finds one that a to_csv call has opened and not finished.
C20_CurrentNeverPartial ==
    \A f \in DOMAIN current : current[f].complete

\* ------------------------------------------------ claims on the run's report
\* the summary of this run is in a directory under a name
SummaryWritten(files, name) ==
    name \in DOMAIN files /\ files[name] = CompleteFile(processing_summary)

\* C21: a run always produces the processing-summary artifact, archive copy
\* and current copy, with one row per survey, even when every survey fails
\* and the full and LTR/driver outputs are omitted: every run reaches the end
\* of the output cell, and there both copies hold the run's summary.
C21_SummaryAlwaysProduced ==
    /\ <>(pc = "done")
    /\ [](pc = "done" =>
            /\ SummaryWritten(archive, <<"Processing_Summary", TIMESTAMP>>)
            /\ SummaryWritten(current, "processing_summary.csv")
            /\ Len(processing_summary) = Len(SURVEYS))

\* C21 witness: a finished run whose only survey failed (its query raised);
\* neither combined output was written, the summary was, in both
\* directories, with the survey's row.
C21_Witness ==
    /\ pc = "done"
    /\ Len(SURVEYS) = 1
    /\ StatusOf(1) = "Failed to load"
    /\ combined_all_data.none /\ combined_ltr_drivers.none
    /\ DOMAIN current = {"processing_summary.csv"}
    /\ DOMAIN archive = {<<"Processing_Summary", TIMESTAMP>>}
    /\ SummaryWritten(archive, <<"Processing_Summary", TIMESTAMP>>)
    /\ SummaryWritten(current, "processing_summary.csv")

\* the configuration maps some column of some survey to a dictionary name
\* that does not exist
ConfigInvalid ==
    \E sv \in DOMAIN survey_column_mappings :
        \E c \in DOMAIN survey_column_mappings[sv] :
            survey_column_mappings[sv][c] \notin DOMAIN mapping_dictionaries

\* C22: a ConfigError halts the run before any survey is processed and is
\* never downgraded to a summary row.  Under a configuration that maps a
\* column to an unknown dictionary name no survey is attempted and no summary
\* row is written, and no summary row ever carries the ConfigError as status.
C22_ConfigErrorHaltsRun ==
    /\ ConfigInvalid => attempt_log = <<>> /\ processing_summary = <<>>
    /\ \A k \in 1..Len(processing_summary) : StatusOf(k) # "Error: unknown dictionary"

\* the statuses of the form Error: <detail>
ErrorStatuses ==
    {"Error: SQL file not found", "Error: transformation failed",
     "Error: unknown dictionary",
     "Error: name 'extract_ltr_and_drivers' is not defined"}

\* an exception was raised while the fetched dataset of the survey at list
\* position k was processed
RaisedInProcessing(k) == ~SourceFailed(k) /\ attempt_log[k].raised

\* C23: every summary row's status is one of Success, No Data, Failed to
\* load and Error: <detail>, and the survey's outcome chooses it: Failed to
\* load exactly when the record source failed to produce rows, No Data
\* exactly when the fetch succeeded with zero rows, Error: <detail> exactly
\* when validation failed or an exception was raised while processing, and
\* Success otherwise.
C23_StatusByOutcome ==
    \A k \in 1..Len(processing_summary) :
        LET failed == SourceFailed(k)
            error == ~failed /\ (ValidationFailed(k) \/ RaisedInProcessing(k))
            nodata == ~failed /\ ~error /\ SourceRows(k) = 0
        IN  /\ StatusOf(k) \in {"Success", "No Data", "Failed to load"} \cup ErrorStatuses
            /\ StatusOf(k) = "Failed to load" <=> failed
            /\ StatusOf(k) = "No Data" <=> nodata
            /\ StatusOf(k) \in ErrorStatuses <=> error
            /\ StatusOf(k) = "Success" <=> ~failed /\ ~error /\ ~nodata

\* C24: record acquisition is scoped.  Whatever way a per-survey fetch ends
\* (rows returned, query error, validation failure, query file missing), a
\* connection the function opened itself is closed when it returns, hence
\* before the next survey starts, and a connection the caller supplied is
\* neither closed nor replaced by one of the function's own.
C24_ScopedAcquisition ==
    fn_call.f = "execute_query_and_load_data" =>
        /\ fn_result.conn_opened => fn_result.conn_closed
        /\ fn_call.connection # NoConnection =>
              ~fn_result.supplied_closed /\ ~fn_result.conn_opened

\* C24 witness: called without a connection, the query returned rows with a
\* column outside the taxonomy; the function returned None and the connection
\* it had opened is closed.
C24_Witness ==
    /\ fn_call.f = "execute_query_and_load_data"
    /\ fn_call.connection = NoConnection
    /\ fn_call.file_exists
    /\ ~fn_call.query.none
    /\ "Weird_Column" \in fn_call.query.cols
    /\ fn_result.df.none
    /\ fn_result.conn_opened /\ fn_result.conn_closed

\* a list after a step: what it held is still there, entry for entry, and at
\* most one entry was added at its end
GrownAtEnd(before, after) ==
    /\ Len(before) <= Len(after) /\ Len(after) <= Len(before) + 1
    /\ SubSeq(after, 1, Len(before)) = before

\* C25: summary rows and aggregated datasets are frozen once appended.  Every
\* step of a run, the processing of survey i in particular, leaves the
\* summary rows, the full-dataset entries and the LTR/driver entries of the
\* surveys before i as they were and adds at most one entry at the end of
\* each list; the summary gets exactly one per processed survey.
C25_FrozenOnceAppended ==
    [][/\ GrownAtEnd(processing_summary, processing_summary')
       /\ GrownAtEnd(all_survey_data, all_survey_data')
       /\ GrownAtEnd(nps_driver_data, nps_driver_data')
       /\ Len(attempt_log') > Len(attempt_log) =>
             Len(processing_summary') = Len(processing_summary) + 1]_vars

\* C25 witness: two surveys were stored one after the other; the lists hold
\* two entries each, the first survey's in first place with all its rows.
C25_Witness ==
    /\ Len(processing_summary) = 2
    /\ Len(all_survey_data) = 2
    /\ Len(nps_driver_data) = 2
    /\ processing_summary[1].Survey_Name = "survey_1"
    /\ processing_summary[2].Survey_Name = "survey_2"
    /\ RowsFrom(all_survey_data[1], "survey_1") = MaxRows
    /\ RowsFrom(nps_driver_data[1], "survey_1") = MaxRows
    /\ RowsFrom(all_survey_data[2], "survey_2") = MaxRows

\* the columns of the survey at list position k that the effective mapping
\* set covers and the data has: the explicitly configured ones and those with
\* a default rule
EffectivePresent(k) ==
    {c \in attempt_log[k].query.cols :
        c \in ExplicitColumns(k) \/ c \in DOMAIN default_mappings}

\* C26: for every successfully processed survey the summary's
\* Columns_Transformed is the number of columns of its dataset that were
\* transformed: the size of the effective mapping set, explicit mappings
\* plus applied defaults, restricted to the columns present in the data.
C26_ColumnsTransformedCount ==
    \A k \in 1..Len(processing_summary) :
        StatusOf(k) = "Success" =>
            processing_summary[k].Columns_Transformed = Cardinality(EffectivePresent(k))

\* the data of the survey at list position k has a column of a category
HasColumnOf(k, category) ==
    \E c \in attempt_log[k].query.cols :
        c \in DOMAIN ALL_COLUMNS /\ ALL_COLUMNS[c] = category

\* C27: for every survey with status Success the summary flags agree with
\* the LTR/driver output.  Has_LTR_Data is true exactly when the dataset has
\* an LTR column, Has_Driver_Data exactly when it has a DRIVERS column, the
\* survey has an entry in the LTR/driver list exactly when one of the flags
\* is true, and at the end of the run its rows are in combined_ltr_drivers,
\* all of them, exactly then.
C27_FlagsAgreeWithLtrOutput ==
    \A k \in 1..Len(processing_summary) :
        StatusOf(k) = "Success" =>
            LET flagged == \/ processing_summary[k].Has_LTR_Data
                           \/ processing_summary[k].Has_Driver_Data
            IN  /\ processing_summary[k].Has_LTR_Data <=> HasColumnOf(k, "LTR")
                /\ processing_summary[k].Has_Driver_Data <=> HasColumnOf(k, "DRIVERS")
                /\ flagged <=> \E a \in 1..Len(nps_driver_data) :
                                  RowsFrom(nps_driver_data[a], SURVEYS[k]) > 0
                /\ pc = "done" =>
                      RowsFrom(combined_ltr_drivers, SURVEYS[k]) =
                          IF flagged THEN SourceRows(k) ELSE 0

\* C27 witness: survey_1 with a DRIVERS column and no LTR column, survey_2
\* with METADATA columns only, both Success; the first has its rows in
\* combined_ltr_drivers and one flag set, the second neither.
C27_Witness ==
    /\ pc = "done"
    /\ Len(processing_summary) = 2
    /\ StatusOf(1) = "Success" /\ StatusOf(2) = "Success"
    /\ attempt_log[1].query.cols = {"ResponseID", "Satisfaction_Rating", "Custom_Metric_1"}
    /\ attempt_log[2].query.cols = {"Demographics_Age", "Free_Text_Feedback"}
    /\ ~processing_summary[1].Has_LTR_Data /\ processing_summary[1].Has_Driver_Data
    /\ ~processing_summary[2].Has_LTR_Data /\ ~processing_summary[2].Has_Driver_Data
    /\ SourceRows(1) = MaxRows /\ SourceRows(2) = MaxRows
    /\ RowsFrom(combined_ltr_drivers, "survey_1") = MaxRows
    /\ RowsFrom(combined_ltr_drivers, "survey_2") = 0
    /\ RowsFrom(combined_all_data, "survey_2") = MaxRows

\* C28: the summary and the full output agree after any run.  A survey's
\* rows are in combined_all_surveys exactly when its summary row has status
\* Success, and the Records_Processed of all summary rows add up to the row
\* count of combined_all_surveys, also when an exception was raised after
\* the dataset was stored.
C28_SummaryAgreesWithFullOutput ==
    pc = "done" =>
        /\ \A k \in 1..Len(processing_summary) :
              RowsFrom(combined_all_data, SURVEYS[k]) > 0 <=> StatusOf(k) = "Success"
        /\ SumTo([k \in 1..Len(processing_summary) |->
                     processing_summary[k].Records_Processed],
                 Len(processing_summary))
              = NumRows(combined_all_data)

\* the number of rows the frames of a list hold for a survey
RowsInList(list, survey_name) ==
    SumTo([a \in 1..Len(list) |-> RowsFrom(list[a], survey_name)], Len(list))

NamedAfterOrigin(out, contributes(_)) ==
    /\ ~out.none => "Survey_Name" \in out.cols
    /\ \A j \in 1..Len(out.rows) :
          /\ out.rows[j]["Survey_Name"] # NaN
          /\ \E k \in 1..Len(attempt_log) :
                contributes(k) /\ out.rows[j]["Survey_Name"] = NameCell(SURVEYS[k])
    /\ \A k \in 1..Len(attempt_log) :
          contributes(k) =>
              LET own == RowsOfSurvey(out.rows, k)
              IN  /\ Len(own) = SourceRows(k)
                  /\ \A c \in attempt_log[k].query.cols \cap {"ResponseID", "Timestamp"} :
                        \A j \in 1..Len(own) : own[j][c] = attempt_log[k].query.rows[j][c]

\* C30: every row of both combined outputs carries a Survey_Name value,
\* never the "no value" marker, equal to the name of the survey list entry it
\* was fetched for, also when the record source itself returned a Survey_Name
\* column with another value.
C30_SurveyNameIsOrigin ==
    pc = "done" =>
        /\ NamedAfterOrigin(combined_all_data, InFullOutput)
        /\ NamedAfterOrigin(combined_ltr_drivers, InLtrOutput)

\* C30 witness: survey_1's query returned a Survey_Name column holding
\* "legacy_name"; its rows are in both outputs under the name survey_1.
C30_Witness ==
    /\ pc = "done"
    /\ Len(attempt_log) = 2
    /\ attempt_log[1].query.cols = {"ResponseID", "NPS_Score", "Survey_Name"}
    /\ SourceRows(1) = MaxRows
    /\ attempt_log[1].query.rows[1]["Survey_Name"] = NameCell("legacy_name")
    /\ StatusOf(1) = "Success" /\ StatusOf(2) = "Success"
    /\ combined_all_data.rows[1]["Survey_Name"] = NameCell("survey_1")
    /\ combined_ltr_drivers.rows[1]["Survey_Name"] = NameCell("survey_1")
    /\ combined_all_data.rows[MaxRows + 1]["Survey_Name"] = NameCell("survey_2")

====
